---- MODULE Spec2Model ----
(***************************************************************************)
(* A model of SpotifyAPI (spotify.py): one client object, the              *)
(* authorization endpoint and the catalog API it talks to, and the wall    *)
(* clock that decides when the bearer token is renewed.                    *)
(*                                                                         *)
(* Python values are tagged records, strings that get base64-encoded are   *)
(* sequences of ASCII codes, the object is a function from the names of    *)
(* the attributes it currently has to their values (an attribute that was  *)
(* never assigned is absent, and reading it raises AttributeError).        *)
(* time() is read in whole seconds.  Every HTTP response is an input       *)
(* chosen by the environment.                                              *)
(***************************************************************************)
EXTENDS Integers, Sequences, FiniteSets, TLC

VARIABLES
    phase,      \* "new": not constructed; "live": the constructor returned;
                \* "dead": the constructor raised, the caller holds no object
    self,       \* the object's attributes
    now,        \* the clock time() reads, in seconds
    last,       \* the last event: operation, HTTP exchanges, output, outcome
    ctorArgs,   \* history: the (client_id, client_secret) the caller passed
    granted,    \* history: the access tokens the endpoint has handed out, in order
    thr         \* the threads sharing the object: where each is in its genres call

vars == <<phase, self, now, last, ctorArgs, granted, thr>>

-----------------------------------------------------------------------------
(* Bounds of the model *)

MaxTime == 7300

NumTokens == 2

(* Program constant: the divisor of update_token, seconds in the hour a    *)
(* token lives                                                             *)
SecondsPerHour == 3600

(* Program constant: __str__ switches to minutes above this many seconds *)
SecondsPerMinute == 60

-----------------------------------------------------------------------------
(* Python values *)

PyStr(chars) == [type |-> "str", chars |-> chars]

PyNone == [type |-> "NoneType"]

PyInt(n) == [type |-> "int", val |-> n]

PyJson(body) == [type |-> "json", val |-> body]

(* What a caller may pass: "ab" / "xy" as ASCII, nothing (the default None), *)
(* or something that is no string                                          *)
ClientIdArgs == {PyStr(<<97, 98>>), PyNone, PyInt(7)}

ClientSecretArgs == {PyStr(<<120, 121>>), PyNone, PyInt(7)}

DigitChars == <<48, 49, 50, 51, 52, 53, 54, 55, 56, 57>>

(* What an f-string renders for a value: str(v), for one-digit integers *)
Format(v) ==
    CASE v.type = "str" -> v.chars
      [] v.type = "NoneType" -> <<78, 111, 110, 101>>
      [] v.type = "int" -> <<DigitChars[v.val + 1]>>

B64Alphabet ==
    << "A", "B", "C", "D", "E", "F", "G", "H", "I", "J", "K", "L", "M",
       "N", "O", "P", "Q", "R", "S", "T", "U", "V", "W", "X", "Y", "Z",
       "a", "b", "c", "d", "e", "f", "g", "h", "i", "j", "k", "l", "m",
       "n", "o", "p", "q", "r", "s", "t", "u", "v", "w", "x", "y", "z",
       "0", "1", "2", "3", "4", "5", "6", "7", "8", "9", "+", "/" >>

RECURSIVE B64Encode(_)
(* base64.b64encode(bytes).decode(): three bytes to four characters, the   *)
(* last group padded with "="                                              *)
B64Encode(bytes) ==
    IF Len(bytes) = 0 THEN ""
    ELSE LET n  == IF Len(bytes) >= 3 THEN 3 ELSE Len(bytes)
             b2 == IF n >= 2 THEN bytes[2] ELSE 0
             b3 == IF n >= 3 THEN bytes[3] ELSE 0
             w  == bytes[1] * 65536 + b2 * 256 + b3
             c1 == B64Alphabet[(w \div 262144) + 1]
             c2 == B64Alphabet[((w \div 4096) % 64) + 1]
             c3 == IF n >= 2 THEN B64Alphabet[((w \div 64) % 64) + 1] ELSE "="
             c4 == IF n >= 3 THEN B64Alphabet[(w % 64) + 1] ELSE "="
         IN  c1 \o c2 \o c3 \o c4 \o B64Encode(SubSeq(bytes, n + 1, Len(bytes)))

(* f"{client_id}:{client_secret}".encode(), 58 being ":" *)
Credentials(client_id, client_secret) ==
    Format(client_id) \o <<58>> \o Format(client_secret)

BasicHeader(client_id, client_secret) ==
    [Authorization |-> "Basic " \o B64Encode(Credentials(client_id, client_secret))]

-----------------------------------------------------------------------------
(* The object *)

NewObject == [class |-> "SpotifyAPI"]

HasAttr(obj, name) == name \in DOMAIN obj

SetAttr(obj, name, val) == (name :> val) @@ obj

Urls ==
    [api  |-> "https://api.spotify.com/v1/",
     auth |-> "https://accounts.spotify.com/api/token"]

(* The header set with the token alone, the scheme forgotten *)
ApiHeaders_NoScheme(access_token) ==
    ("Accept" :> "application/json")
    @@ ("Content-Type" :> "application/json")
    @@ ("Authorization" :> access_token)

ApiHeaders(access_token) ==
    ("Accept" :> "application/json")
    @@ ("Content-Type" :> "application/json")
    @@ ("Authorization" :> "Bearer " \o access_token)

-----------------------------------------------------------------------------
(* The environment: what the two servers may answer *)

Tokens == {"BQ" \o ToString(i) : i \in 1..NumTokens}

Raised(exc) == [kind |-> "raise", exc |-> exc]

Http(status, json, body) ==
    [kind |-> "http", status |-> status, json |-> json, body |-> body]

AuthResponses ==
    {Http(200, TRUE, [access_token |-> tok, token_type |-> "Bearer"]) : tok \in Tokens}
    \cup {Http(400, TRUE, [error |-> "invalid_client"]),
          Http(500, TRUE, [message |-> "server error"]),
          Http(502, FALSE, [text |-> "Bad Gateway"]),
          Raised("ConnectionError")}

ApiResponses ==
    {Http(200, TRUE, [genres |-> <<"pop", "rock">>]),
     Http(200, TRUE, [artists |-> [items |-> <<"Post Malone">>]]),
     Http(401, TRUE, [error |-> [status |-> 401, message |-> "The access token expired"]]),
     Http(502, FALSE, [text |-> "Bad Gateway"]),
     Raised("ConnectionError")}

Queries == {"post malone"}

Types == {"artist", "bogus"}

ClockSteps == {SecondsPerHour \div 2, SecondsPerHour \div 2 + 1}

-----------------------------------------------------------------------------
(* Executions: what running a piece of code leaves behind.  exc is "none"  *)
(* when it ran to its end, else the exception that left it.                *)

Exec(obj, calls, out, exc, value) ==
    [obj |-> obj, calls |-> calls, out |-> out, exc |-> exc, value |-> value]

Exchange(req, resp) == [req |-> req, resp |-> resp]

(* response.json(): the parsed body, or an exception for a body that is no JSON *)
JsonFails(resp) == ~resp.json

(* __init__ with self.start = time() moved out of the success branch *)
SpotifyInit_StartAlways(obj, client_id, client_secret, resp, t) ==
    IF client_id.type # "str" /\ client_secret.type # "str"
    THEN Exec(obj, <<>>, <<>>, "TypeError", PyNone)
    ELSE
      LET o1  == SetAttr(SetAttr(SetAttr(obj, "urls", Urls),
                                 "client_id", client_id),
                         "client_secret", client_secret)
          req == [method  |-> "POST",
                  url     |-> o1.urls.auth,
                  data    |-> [grant_type |-> "client_credentials"],
                  headers |-> BasicHeader(o1.client_id, o1.client_secret)]
          ex  == <<Exchange(req, resp)>>
          o2  == SetAttr(o1, "start", t)
      IN
        IF resp.kind = "raise" THEN Exec(o1, ex, <<>>, resp.exc, PyNone)
        ELSE IF JsonFails(resp) THEN Exec(o1, ex, <<>>, "JSONDecodeError", PyNone)
        ELSE IF "access_token" \in DOMAIN resp.body
        THEN Exec(SetAttr(o2, "api_headers", ApiHeaders(resp.body.access_token)),
                  ex, <<"ACCESS GRANTED.\nToken expires in 1 hour">>, "none", PyNone)
        ELSE IF "error" \in DOMAIN resp.body
        THEN Exec(SetAttr(o2, "access_token", 0),
                  ex, <<"ERROR: " \o resp.body.error>>, "none", PyNone)
        ELSE Exec(o2, ex, <<>>, "KeyError", PyNone)

(* SpotifyAPI.__init__ run on obj at time t, the POST answered with resp *)
SpotifyInit(obj, client_id, client_secret, resp, t) ==
    IF client_id.type # "str" /\ client_secret.type # "str"
    THEN Exec(obj, <<>>, <<>>, "TypeError", PyNone)
    ELSE
      LET o1  == SetAttr(SetAttr(SetAttr(obj, "urls", Urls),
                                 "client_id", client_id),
                         "client_secret", client_secret)
          req == [method  |-> "POST",
                  url     |-> o1.urls.auth,
                  data    |-> [grant_type |-> "client_credentials"],
                  headers |-> BasicHeader(o1.client_id, o1.client_secret)]
          ex  == <<Exchange(req, resp)>>
      IN
        IF resp.kind = "raise" THEN Exec(o1, ex, <<>>, resp.exc, PyNone)
        ELSE IF JsonFails(resp) THEN Exec(o1, ex, <<>>, "JSONDecodeError", PyNone)
        ELSE IF "access_token" \in DOMAIN resp.body
        THEN Exec(SetAttr(SetAttr(o1, "start", t),
                          "api_headers", ApiHeaders(resp.body.access_token)),
                  ex, <<"ACCESS GRANTED.\nToken expires in 1 hour">>, "none", PyNone)
        ELSE IF "error" \in DOMAIN resp.body
        THEN Exec(SetAttr(o1, "access_token", 0),
                  ex, <<"ERROR: " \o resp.body.error>>, "none", PyNone)
        ELSE Exec(o1, ex, <<>>, "KeyError", PyNone)

Outcome(e) ==
    IF e.exc = "none" THEN [kind |-> "return", value |-> e.value]
    ELSE [kind |-> "raise", exc |-> e.exc]

Event(op, args, e) ==
    [op |-> op, args |-> args, calls |-> e.calls, out |-> e.out, outcome |-> Outcome(e)]

IsPost(x) == x.req.method = "POST"

IsGet(x) == x.req.method = "GET"

(* The answer carries an access token: the authentication succeeded *)
Grants(x) ==
    /\ IsPost(x)
    /\ x.resp.kind = "http"
    /\ x.resp.json
    /\ "access_token" \in DOMAIN x.resp.body

RECURSIVE GrantedIn(_)
(* The access tokens the authorization endpoint handed out in these        *)
(* exchanges, in order                                                     *)
GrantedIn(calls) ==
    IF calls = <<>> THEN <<>>
    ELSE (IF Grants(Head(calls)) THEN <<Head(calls).resp.body.access_token>> ELSE <<>>)
         \o GrantedIn(Tail(calls))

(* update_token: renew when more than an hour has passed since start.      *)
(* (time() - start) / 3600 > 1 is a float comparison; on whole seconds it  *)
(* is t - start > 3600.  The renewal is __init__ run again on the object.  *)
(* The age test with >= in place of > *)
Expired_AtLeast(obj, t) == (t - obj.start) >= SecondsPerHour * 1

Expired(obj, t) == (t - obj.start) > SecondsPerHour * 1

(* update_token that passes the stored credentials in the wrong order *)
UpdateToken_SwappedArgs(obj, resp, t) ==
    IF ~HasAttr(obj, "start") THEN Exec(obj, <<>>, <<>>, "AttributeError", PyNone)
    ELSE IF Expired(obj, t)
    THEN SpotifyInit(obj, obj.client_secret, obj.client_id, resp, t)
    ELSE Exec(obj, <<>>, <<>>, "none", PyNone)

(* update_token that treats a missing start as an expired token *)
UpdateToken_DefaultStart(obj, resp, t) ==
    IF ~HasAttr(obj, "start") \/ Expired(obj, t)
    THEN SpotifyInit(obj, obj.client_id, obj.client_secret, resp, t)
    ELSE Exec(obj, <<>>, <<>>, "none", PyNone)

UpdateToken(obj, resp, t) ==
    IF ~HasAttr(obj, "start") THEN Exec(obj, <<>>, <<>>, "AttributeError", PyNone)
    ELSE IF Expired(obj, t)
    THEN SpotifyInit(obj, obj.client_id, obj.client_secret, resp, t)
    ELSE Exec(obj, <<>>, <<>>, "none", PyNone)

(* The GET with r.raise_for_status() before r.json() *)
GetJson_RaiseForStatus(pre, req, resp) ==
    LET calls == pre.calls \o <<Exchange(req, resp)>>
    IN  IF resp.kind = "raise" THEN Exec(pre.obj, calls, pre.out, resp.exc, PyNone)
        ELSE IF resp.status \notin 200..299
        THEN Exec(pre.obj, calls, pre.out, "HTTPError", PyNone)
        ELSE IF JsonFails(resp)
        THEN Exec(pre.obj, calls, pre.out, "JSONDecodeError", PyNone)
        ELSE Exec(pre.obj, calls, pre.out, "none", PyJson(resp.body))

(* The GET returning r.json()["genres"] instead of r.json() *)
GetJson_OnlyGenres(pre, req, resp) ==
    LET calls == pre.calls \o <<Exchange(req, resp)>>
    IN  IF resp.kind = "raise" THEN Exec(pre.obj, calls, pre.out, resp.exc, PyNone)
        ELSE IF JsonFails(resp)
        THEN Exec(pre.obj, calls, pre.out, "JSONDecodeError", PyNone)
        ELSE IF "genres" \notin DOMAIN resp.body
        THEN Exec(pre.obj, calls, pre.out, "KeyError", PyNone)
        ELSE Exec(pre.obj, calls, pre.out, "none", PyJson(resp.body.genres))

(* The GET sent a second time when the first attempt raised *)
GetJson_Retry(pre, req, resp) ==
    LET once  == pre.calls \o <<Exchange(req, resp)>>
        twice == once \o <<Exchange(req, resp)>>
    IN  IF resp.kind = "raise" THEN Exec(pre.obj, twice, pre.out, resp.exc, PyNone)
        ELSE IF JsonFails(resp)
        THEN Exec(pre.obj, once, pre.out, "JSONDecodeError", PyNone)
        ELSE Exec(pre.obj, once, pre.out, "none", PyJson(resp.body))

(* requests.get(...) followed by r.json(), after the code before it ran as pre *)
GetJson(pre, req, resp) ==
    LET calls == pre.calls \o <<Exchange(req, resp)>>
    IN  IF resp.kind = "raise" THEN Exec(pre.obj, calls, pre.out, resp.exc, PyNone)
        ELSE IF JsonFails(resp)
        THEN Exec(pre.obj, calls, pre.out, "JSONDecodeError", PyNone)
        ELSE Exec(pre.obj, calls, pre.out, "none", PyJson(resp.body))

(* genres without the call of update_token *)
GenresOp_NoRenew(obj, authResp, apiResp, t) ==
    IF ~HasAttr(obj, "api_headers")
    THEN Exec(obj, <<>>, <<>>, "AttributeError", PyNone)
    ELSE GetJson(Exec(obj, <<>>, <<>>, "none", PyNone),
                 [method  |-> "GET",
                  url     |-> obj.urls.api \o "recommendations/available-genre-seeds",
                  headers |-> obj.api_headers],
                 apiResp)

(* The genres property *)
GenresOp(obj, authResp, apiResp, t) ==
    LET u == UpdateToken(obj, authResp, t)
    IN  IF u.exc # "none" THEN u
        ELSE IF ~HasAttr(u.obj, "api_headers")
        THEN Exec(u.obj, u.calls, u.out, "AttributeError", PyNone)
        ELSE GetJson(u,
                     [method  |-> "GET",
                      url     |-> u.obj.urls.api \o "recommendations/available-genre-seeds",
                      headers |-> u.obj.api_headers],
                     apiResp)

(* search that checks t against the documented catalog types first *)
SearchOp_ValidatesType(obj, q, type, apiResp, t) ==
    IF type \notin {"album", "artist", "playlist", "track", "show", "episode"}
    THEN Exec(obj, <<>>, <<>>, "ValueError", PyNone)
    ELSE IF ~HasAttr(obj, "api_headers")
    THEN Exec(obj, <<>>, <<>>, "AttributeError", PyNone)
    ELSE GetJson(Exec(obj, <<>>, <<>>, "none", PyNone),
                 [method  |-> "GET",
                  url     |-> obj.urls.api \o "search",
                  params  |-> [q |-> q, type |-> type],
                  headers |-> obj.api_headers],
                 apiResp)

(* search(q, t) *)
SearchOp(obj, q, type, apiResp, t) ==
    IF ~HasAttr(obj, "api_headers")
    THEN Exec(obj, <<>>, <<>>, "AttributeError", PyNone)
    ELSE GetJson(Exec(obj, <<>>, <<>>, "none", PyNone),
                 [method  |-> "GET",
                  url     |-> obj.urls.api \o "search",
                  params  |-> [q |-> q, type |-> type],
                  headers |-> obj.api_headers],
                 apiResp)

(* __str__: prints the summary and returns the empty string *)
StrOp(obj, t) ==
    IF ~HasAttr(obj, "start") THEN Exec(obj, <<>>, <<>>, "AttributeError", PyNone)
    ELSE
      LET elapsed == t - obj.start
          text    == IF elapsed > SecondsPerMinute
                     THEN ToString(elapsed \div SecondsPerMinute) \o " minutes "
                          \o ToString(elapsed % SecondsPerMinute) \o " seconds"
                     ELSE ToString(elapsed) \o " seconds"
      IN  Exec(obj, <<>>,
               <<"Class: " \o obj.class \o " Time Elapsed: " \o text>>,
               "none", PyStr(<<>>))

(* __repr__ *)
ReprOp(obj) == Exec(obj, <<>>, <<>>, "none", PyStr(<<>>))

(* Threads that call genres on the one shared object.  The code takes no  *)
(* lock, so a thread can be preempted between the statements of a call;   *)
(* pc says which part of the call is done:                                *)
(*   "idle"      nothing yet                                              *)
(*   "renew"     update_token found the token expired (lines 102-103)     *)
(*   "answered"  __init__ sent its POST and holds the answer (36-58)      *)
(*   "get"       update_token returned (60-74 done, or token was fresh)   *)
(*   "done"      the call returned or raised                              *)
Threads == {"t1", "t2"}

IdleThread ==
    [pc |-> "idle", renew |-> FALSE, calls |-> <<>>,
     resp |-> [kind |-> "none"], outcome |-> [kind |-> "none"]]

(* __init__ up to the POST: the argument test, the three assignments and  *)
(* the request built from the stored credentials                          *)
InitRequest(obj, client_id, client_secret) ==
    LET o1 == SetAttr(SetAttr(SetAttr(obj, "urls", Urls),
                              "client_id", client_id),
                      "client_secret", client_secret)
    IN  [rejected |-> client_id.type # "str" /\ client_secret.type # "str",
         obj      |-> o1,
         req      |-> [method  |-> "POST",
                       url     |-> o1.urls.auth,
                       data    |-> [grant_type |-> "client_credentials"],
                       headers |-> BasicHeader(o1.client_id, o1.client_secret)]]

-----------------------------------------------------------------------------
Init ==
    /\ phase = "new"
    /\ self = NewObject
    /\ now = 0
    /\ last = [op |-> "none"]
    /\ ctorArgs = <<PyNone, PyNone>>
    /\ granted = <<>>
    /\ thr = [th \in Threads |-> IdleThread]

(* api = SpotifyAPI(client_id, client_secret) *)
Construct(client_id, client_secret, resp) ==
    /\ phase = "new"
    /\ LET e == SpotifyInit(self, client_id, client_secret, resp, now)
       IN  /\ self' = e.obj
           /\ phase' = IF e.exc = "none" THEN "live" ELSE "dead"
           /\ last' = Event("__init__", <<client_id, client_secret>>, e)
           /\ granted' = granted \o GrantedIn(e.calls)
    /\ ctorArgs' = <<client_id, client_secret>>
    /\ UNCHANGED <<now, thr>>

(* api.genres *)
Genres(authResp, apiResp) ==
    /\ phase = "live"
    /\ LET e == GenresOp(self, authResp, apiResp, now)
       IN  /\ self' = e.obj
           /\ last' = Event("genres", <<>>, e)
           /\ granted' = granted \o GrantedIn(e.calls)
    /\ UNCHANGED <<phase, now, ctorArgs, thr>>

(* api.search(q, t) *)
Search(q, type, apiResp) ==
    /\ phase = "live"
    /\ LET e == SearchOp(self, q, type, apiResp, now)
       IN  /\ self' = e.obj
           /\ last' = Event("search", <<q, type>>, e)
           /\ granted' = granted \o GrantedIn(e.calls)
    /\ UNCHANGED <<phase, now, ctorArgs, thr>>

(* str(api) / print(api) *)
Str ==
    /\ phase = "live"
    /\ LET e == StrOp(self, now)
       IN  /\ self' = e.obj
           /\ last' = Event("__str__", <<>>, e)
    /\ UNCHANGED <<phase, now, ctorArgs, granted, thr>>

(* repr(api) *)
Repr ==
    /\ phase = "live"
    /\ LET e == ReprOp(self)
       IN  /\ self' = e.obj
           /\ last' = Event("__repr__", <<>>, e)
    /\ UNCHANGED <<phase, now, ctorArgs, granted, thr>>

(* Time passes between two operations; the clock counts from the moment   *)
(* the constructor is called                                               *)
Tick(d) ==
    /\ phase = "live"
    /\ now + d <= MaxTime
    /\ now' = now + d
    /\ last' = [op |-> "sleep"]
    /\ UNCHANGED <<phase, self, ctorArgs, granted, thr>>

Next ==
    \/ \E id \in ClientIdArgs, secret \in ClientSecretArgs, resp \in AuthResponses :
          Construct(id, secret, resp)
    \/ \E authResp \in AuthResponses, apiResp \in ApiResponses :
          Genres(authResp, apiResp)
    \/ \E q \in Queries, type \in Types, apiResp \in ApiResponses :
          Search(q, type, apiResp)
    \/ Str
    \/ Repr
    \/ \E d \in ClockSteps : Tick(d)

Spec == Init /\ [][Next]_vars

-----------------------------------------------------------------------------
(* Two threads on one client.  The client was constructed at time 0 and    *)
(* granted a token; an hour, or an hour and a second, has passed.          *)

InitThreads ==
    /\ phase = "live"
    /\ \E tok \in Tokens :
          /\ self = SpotifyInit(NewObject, PyStr(<<97, 98>>), PyStr(<<120, 121>>),
                                Http(200, TRUE, [access_token |-> tok,
                                                 token_type |-> "Bearer"]), 0).obj
          /\ granted = <<tok>>
    /\ now \in {SecondsPerHour, SecondsPerHour + 1}
    /\ last = [op |-> "sleep"]
    /\ ctorArgs = <<PyStr(<<97, 98>>), PyStr(<<120, 121>>)>>
    /\ thr = [th \in Threads |-> IdleThread]

(* update_token, lines 102-103: read the clock and start, decide *)
TCheck(th) ==
    /\ thr[th].pc = "idle"
    /\ thr' = [thr EXCEPT ![th] =
                 IF ~HasAttr(self, "start")
                 THEN [@ EXCEPT !.pc = "done",
                                !.outcome = [kind |-> "raise", exc |-> "AttributeError"]]
                 ELSE [@ EXCEPT !.pc = IF Expired(self, now) THEN "renew" ELSE "get",
                                !.renew = Expired(self, now)]]
    /\ UNCHANGED <<phase, self, now, last, ctorArgs, granted>>

(* The renewal guarded by a second look at the age: a thread that finds    *)
(* the token renewed in the meantime goes on to its GET without a POST     *)
TPost_Recheck(th, resp) ==
    /\ thr[th].pc = "renew"
    /\ LET r  == InitRequest(self, self.client_id, self.client_secret)
           ex == <<Exchange(r.req, resp)>>
       IN  IF ~Expired(self, now)
           THEN /\ thr' = [thr EXCEPT ![th].pc = "get"]
                /\ UNCHANGED <<self, granted>>
           ELSE IF r.rejected
           THEN /\ thr' = [thr EXCEPT ![th].pc = "done",
                                      ![th].outcome = [kind |-> "raise", exc |-> "TypeError"]]
                /\ UNCHANGED <<self, granted>>
           ELSE /\ self' = r.obj
                /\ granted' = granted \o GrantedIn(ex)
                /\ thr' = [thr EXCEPT ![th] =
                             IF resp.kind = "raise"
                             THEN [@ EXCEPT !.pc = "done", !.calls = ex,
                                            !.outcome = [kind |-> "raise", exc |-> resp.exc]]
                             ELSE [@ EXCEPT !.pc = "answered", !.calls = ex,
                                            !.resp = resp]]
    /\ UNCHANGED <<phase, now, last, ctorArgs>>

(* line 104 and __init__ lines 36-58: the POST goes out and is answered *)
TPost(th, resp) ==
    /\ thr[th].pc = "renew"
    /\ LET r  == InitRequest(self, self.client_id, self.client_secret)
           ex == <<Exchange(r.req, resp)>>
       IN  IF r.rejected
           THEN /\ thr' = [thr EXCEPT ![th].pc = "done",
                                      ![th].outcome = [kind |-> "raise", exc |-> "TypeError"]]
                /\ UNCHANGED <<self, granted>>
           ELSE /\ self' = r.obj
                /\ granted' = granted \o GrantedIn(ex)
                /\ thr' = [thr EXCEPT ![th] =
                             IF resp.kind = "raise"
                             THEN [@ EXCEPT !.pc = "done", !.calls = ex,
                                            !.outcome = [kind |-> "raise", exc |-> resp.exc]]
                             ELSE [@ EXCEPT !.pc = "answered", !.calls = ex,
                                            !.resp = resp]]
    /\ UNCHANGED <<phase, now, last, ctorArgs>>

(* __init__ lines 60-74 on the answer the thread holds.  SpotifyInit is    *)
(* the whole of __init__; run on the object as it is now it repeats the    *)
(* three assignments of lines 39-47, which store the values already there. *)
THandle(th) ==
    /\ thr[th].pc = "answered"
    /\ LET e == SpotifyInit(self, self.client_id, self.client_secret, thr[th].resp, now)
       IN  /\ self' = e.obj
           /\ thr' = [thr EXCEPT ![th] =
                        IF e.exc = "none"
                        THEN [@ EXCEPT !.pc = "get"]
                        ELSE [@ EXCEPT !.pc = "done",
                                       !.outcome = [kind |-> "raise", exc |-> e.exc]]]
    /\ UNCHANGED <<phase, now, last, ctorArgs, granted>>

(* genres lines 116-118: the GET with the header set as it is now *)
TGet(th, apiResp) ==
    /\ thr[th].pc = "get"
    /\ LET pre == Exec(self, thr[th].calls, <<>>, "none", PyNone)
           e   == IF ~HasAttr(self, "api_headers")
                  THEN Exec(self, thr[th].calls, <<>>, "AttributeError", PyNone)
                  ELSE GetJson(pre,
                               [method  |-> "GET",
                                url     |-> self.urls.api
                                              \o "recommendations/available-genre-seeds",
                                headers |-> self.api_headers],
                               apiResp)
       IN  thr' = [thr EXCEPT ![th].pc = "done",
                              ![th].calls = e.calls,
                              ![th].outcome = Outcome(e)]
    /\ UNCHANGED <<phase, self, now, last, ctorArgs, granted>>

NextThreads ==
    \/ \E th \in Threads : TCheck(th)
    \/ \E th \in Threads, resp \in AuthResponses : TPost(th, resp)
    \/ \E th \in Threads : THandle(th)
    \/ \E th \in Threads, apiResp \in ApiResponses : TGet(th, apiResp)
    \/ \E d \in ClockSteps : Tick(d)

SpecThreads == InitThreads /\ [][NextThreads]_vars

-----------------------------------------------------------------------------
(* Vocabulary of the properties *)

NumPosts(calls) == Cardinality({i \in 1..Len(calls) : IsPost(calls[i])})

NumGets(calls) == Cardinality({i \in 1..Len(calls) : IsGet(calls[i])})

IsQuery(ev) == ev.op \in {"genres", "search"}

(* The client holds a token: an issue time and a header set *)
Authenticated(obj) == HasAttr(obj, "start") /\ HasAttr(obj, "api_headers")

(* The authorization endpoint answered with an error body, no access token *)
AnsweredError(x) ==
    /\ IsPost(x)
    /\ x.resp.kind = "http"
    /\ x.resp.json
    /\ "access_token" \notin DOMAIN x.resp.body
    /\ "error" \in DOMAIN x.resp.body

(* Every POST among the exchanges comes before every GET *)
PostsBeforeGets(calls) ==
    \A i, j \in 1..Len(calls) : IsPost(calls[i]) /\ IsGet(calls[j]) => i < j

-----------------------------------------------------------------------------
(* C1: a genres call on an authenticated client makes exactly one          *)
(* authentication POST, answered before the genres GET is issued, when the *)
(* token is older than one hour, and no POST when it is not; in every step *)
(* of every behaviour, whatever came before.                               *)
C1_GenresRenewsOnce ==
    [][ (last'.op = "genres" /\ Authenticated(self)) =>
           IF now - self.start > SecondsPerHour
           THEN /\ NumPosts(last'.calls) = 1
                /\ IsPost(last'.calls[1])
                /\ PostsBeforeGets(last'.calls)
           ELSE NumPosts(last'.calls) = 0 ]_vars

(* A genres call that renewed and then issued its GET *)
C1_Witness ==
    /\ last.op = "genres"
    /\ Len(last.calls) = 2
    /\ IsPost(last.calls[1])
    /\ IsGet(last.calls[2])

(* C2: a search call on a client whose token is older than one hour makes  *)
(* exactly one authentication POST before its GET.                         *)
C2_SearchRenewsOnce ==
    [][ (/\ last'.op = "search"
         /\ Authenticated(self)
         /\ now - self.start > SecondsPerHour) =>
           /\ NumPosts(last'.calls) = 1
           /\ IsPost(last'.calls[1])
           /\ PostsBeforeGets(last'.calls) ]_vars

(* C3: a constructor call with a client_id or a client_secret that is no   *)
(* string raises TypeError and makes no network call.                      *)
C3_NonStringRejected ==
    (/\ last.op = "__init__"
     /\ (last.args[1].type # "str" \/ last.args[2].type # "str")) =>
        /\ last.outcome = [kind |-> "raise", exc |-> "TypeError"]
        /\ last.calls = <<>>

C5_FailedRenewalUnauthenticates ==
    (/\ IsQuery(last)
     /\ last.calls # <<>>
     /\ AnsweredError(last.calls[1])) =>
        /\ ~HasAttr(self, "api_headers")
        /\ last.outcome.kind = "raise"
        /\ NumGets(last.calls) = 0

(* C6: every query GET carries the header set built from the access token  *)
(* of the latest successful authentication answer: "Bearer " and that      *)
(* token, with the two content headers; never a token that was replaced.   *)
C6_BearerIsLatestToken ==
    IsQuery(last) =>
        \A i \in 1..Len(last.calls) :
            IsGet(last.calls[i]) =>
                /\ granted # <<>>
                /\ DOMAIN last.calls[i].req.headers
                      = {"Accept", "Content-Type", "Authorization"}
                /\ last.calls[i].req.headers["Authorization"]
                      = "Bearer " \o granted[Len(granted)]
                /\ last.calls[i].req.headers["Accept"] = "application/json"
                /\ last.calls[i].req.headers["Content-Type"] = "application/json"

(* A GET sent after a renewal replaced the token by a different one *)
C6_Witness ==
    /\ IsQuery(last)
    /\ NumGets(last.calls) = 1
    /\ Len(granted) >= 2
    /\ granted[Len(granted)] # granted[Len(granted) - 1]

(* The status of the GET answer is a success *)
Is2xx(resp) == resp.kind = "http" /\ resp.status \in 200..299

(* C7, as stated: a query whose GET is answered with a status that is no   *)
(* 2xx raises; it never returns a value.                                   *)
C7_NonSuccessRaises ==
    IsQuery(last) =>
        \A i \in 1..Len(last.calls) :
            (/\ IsGet(last.calls[i])
             /\ last.calls[i].resp.kind = "http"
             /\ ~Is2xx(last.calls[i].resp)) =>
                last.outcome.kind = "raise"

(* C7, amended: the status is never looked at.  A query whose GET is       *)
(* answered with a non-2xx status and a JSON body returns that body as its *)
(* normal result; with a body that is no JSON it raises the decoding error *)
(* of r.json(), not a request error.                                       *)
C7_NonSuccessBodyReturned ==
    IsQuery(last) =>
        \A i \in 1..Len(last.calls) :
            (/\ IsGet(last.calls[i])
             /\ last.calls[i].resp.kind = "http"
             /\ ~Is2xx(last.calls[i].resp)) =>
                IF last.calls[i].resp.json
                THEN last.outcome
                       = [kind |-> "return", value |-> PyJson(last.calls[i].resp.body)]
                ELSE last.outcome = [kind |-> "raise", exc |-> "JSONDecodeError"]

(* A search answered 401 with a JSON error body, returned to the caller *)
C7_Witness ==
    /\ last.op = "search"
    /\ Len(last.calls) = 1
    /\ last.calls[1].resp.kind = "http"
    /\ last.calls[1].resp.status = 401
    /\ last.outcome.kind = "return"

(* C8: a query whose GET is answered with a 2xx status and a JSON body     *)
(* returns exactly that body, whatever happened on the client before.      *)
C8_BodyReturnedUnchanged ==
    IsQuery(last) =>
        \A i \in 1..Len(last.calls) :
            (/\ IsGet(last.calls[i])
             /\ Is2xx(last.calls[i].resp)
             /\ last.calls[i].resp.json) =>
                last.outcome
                  = [kind |-> "return", value |-> PyJson(last.calls[i].resp.body)]

(* A search that returned the artists body after an earlier renewal *)
C8_Witness ==
    /\ last.op = "search"
    /\ Len(granted) >= 2
    /\ last.outcome
         = [kind |-> "return",
            value |-> PyJson([artists |-> [items |-> <<"Post Malone">>]])]

(* C9: no operation repeats a request: a query issues at most one GET, a   *)
(* construction or a renewal at most one POST and an operation renews at   *)
(* most once, whatever the answers are; the diagnostic operations issue    *)
(* no request.                                                             *)
C9_NoRetry ==
    /\ IsQuery(last) => NumGets(last.calls) <= 1 /\ NumPosts(last.calls) <= 1
    /\ last.op = "search" => NumPosts(last.calls) = 0
    /\ last.op = "__init__" => NumPosts(last.calls) <= 1 /\ NumGets(last.calls) = 0
    /\ last.op \in {"__str__", "__repr__"} => last.calls = <<>>

(* A genres call whose renewal was refused and whose GET then failed *)
C9_Witness ==
    /\ last.op = "genres"
    /\ Len(last.calls) = 2
    /\ AnsweredError(last.calls[1])
    /\ last.calls[2].resp.kind = "raise"
    /\ last.outcome.kind = "raise"

(* C10: on a constructed client the stored client_id and client_secret are *)
(* the ones the caller passed to the constructor, after any operations,    *)
(* and every authentication POST carries the Basic header of that pair.    *)
C10_CredentialsImmutable ==
    /\ phase = "live" =>
          /\ self.client_id = ctorArgs[1]
          /\ self.client_secret = ctorArgs[2]
    /\ (phase = "live" /\ last.op \in {"__init__", "genres", "search"}) =>
          \A i \in 1..Len(last.calls) :
              IsPost(last.calls[i]) =>
                  /\ last.calls[i].req.headers
                       = BasicHeader(ctorArgs[1], ctorArgs[2])
                  /\ ctorArgs = <<PyStr(<<97, 98>>), PyStr(<<120, 121>>)>> =>
                       last.calls[i].req.headers
                         = [Authorization |-> "Basic YWI6eHk="]

(* A renewal POST made by genres, one refused and one granted before it *)
C10_Witness ==
    /\ phase = "live"
    /\ last.op = "genres"
    /\ NumPosts(last.calls) = 1
    /\ Len(granted) >= 2
    /\ HasAttr(self, "access_token")

(* C11: search does not validate its type argument: on a client with a     *)
(* header set, every search call, whatever its q and type, sends exactly   *)
(* one GET to the search URL with params q and type as passed, and the     *)
(* call fails only as the answer makes it fail, never by a local check.    *)
C11_TypePassedThrough ==
    (last.op = "search" /\ HasAttr(self, "api_headers")) =>
        /\ Len(last.calls) = 1
        /\ IsGet(last.calls[1])
        /\ last.calls[1].req.url = "https://api.spotify.com/v1/search"
        /\ last.calls[1].req.params = [q |-> last.args[1], type |-> last.args[2]]
        /\ last.outcome.kind = "raise" =>
              \/ last.calls[1].resp.kind = "raise"
                    /\ last.outcome.exc = last.calls[1].resp.exc
              \/ last.calls[1].resp.kind = "http"
                    /\ ~last.calls[1].resp.json
                    /\ last.outcome.exc = "JSONDecodeError"

(* A search for a type outside the documented set, sent and answered *)
C11_Witness ==
    /\ last.op = "search"
    /\ last.args[2] = "bogus"
    /\ Len(last.calls) = 1
    /\ last.calls[1].req.params.type = "bogus"
    /\ last.outcome.kind = "return"

(* C12: the age test of update_token is strict: a genres call on an        *)
(* authenticated client re-authenticates if and only if more than 3600     *)
(* seconds have passed since the recorded issue time; at 3600 seconds or   *)
(* less no POST is made and the issue time stays as it was.                *)
C12_StrictExpiry ==
    [][ (last'.op = "genres" /\ Authenticated(self)) =>
           /\ (NumPosts(last'.calls) >= 1) <=> (now - self.start >= SecondsPerHour + 1)
           /\ now - self.start <= SecondsPerHour =>
                 /\ HasAttr(self', "start")
                 /\ self'.start = self.start ]_vars

(* A genres call made exactly 3600 seconds after the issue, with no POST *)
C12_Witness ==
    /\ last.op = "genres"
    /\ HasAttr(self, "start")
    /\ now - self.start = SecondsPerHour
    /\ NumPosts(last.calls) = 0
    /\ NumGets(last.calls) = 1

(* C14: the issue time and the header set change only in a step whose      *)
(* authentication POST was granted.  A genres call on an expired token     *)
(* whose renewal is not granted leaves both as they were, so the token is  *)
(* still expired and the next genres call renews again; a granted renewal  *)
(* sets the issue time to the current time, and a genres call within the   *)
(* hour after an issue makes no POST.                                      *)
C14_ChangeOnlyOnGrant ==
    [][ /\ (phase = "live" /\ Authenticated(self)) =>
              /\ Authenticated(self')
              /\ (self'.start # self.start \/ self'.api_headers # self.api_headers) =>
                    /\ last'.op = "genres"
                    /\ last'.calls # <<>>
                    /\ Grants(last'.calls[1])
        /\ (/\ last'.op = "genres"
             /\ Authenticated(self)
             /\ now - self.start > SecondsPerHour) =>
              /\ NumPosts(last'.calls) = 1
              /\ IF Grants(last'.calls[1])
                 THEN /\ self'.start = now
                      /\ self'.api_headers["Authorization"]
                            = "Bearer " \o last'.calls[1].resp.body.access_token
                 ELSE /\ self'.start = self.start
                      /\ self'.api_headers = self.api_headers
                      /\ now' - self'.start > SecondsPerHour
        /\ (/\ last'.op = "genres"
             /\ Authenticated(self)
             /\ now - self.start <= SecondsPerHour) =>
              NumPosts(last'.calls) = 0 ]_vars

(* A genres call whose renewal was refused: the old header went out with   *)
(* the GET and the token still counts as expired                           *)
C14_Witness ==
    /\ last.op = "genres"
    /\ Len(last.calls) = 2
    /\ AnsweredError(last.calls[1])
    /\ IsGet(last.calls[2])
    /\ HasAttr(self, "start")
    /\ now - self.start > SecondsPerHour
    /\ last.calls[2].req.headers = self.api_headers

(* The thread's call is past the POST of its renewal, if it makes one *)
PastPost(t) == t.pc \in {"answered", "get", "done"}

(* C13: check and renewal are not one atomic step.  A thread that found    *)
(* the token expired makes its authentication POST whatever the other      *)
(* thread has done since, also when that thread has already recorded a     *)
(* new issue time; a thread that found it fresh makes none.  So the POSTs  *)
(* made for one expiry are as many as the threads that passed the check,   *)
(* and two are reachable (the witness).                                    *)
C13_EveryPassedCheckPosts ==
    \A th \in Threads :
        PastPost(thr[th]) =>
            NumPosts(thr[th].calls) = (IF thr[th].renew THEN 1 ELSE 0)

(* Both threads passed the age check and made their POST before either     *)
(* recorded a new issue time: two renewals for one expiry                  *)
C13_Witness ==
    /\ \A th \in Threads :
          /\ thr[th].pc = "answered"
          /\ thr[th].renew
          /\ NumPosts(thr[th].calls) = 1
    /\ Cardinality(Threads) = 2
    /\ self.start = 0
    /\ Len(granted) = 3

====
